---- MODULE Spec2Model ----
(***************************************************************************)
(* Selective Repeat ARQ simulation (SelectiveRepeatARQ in                  *)
(* network_protocols_simulation.py).                                       *)
(*                                                                         *)
(* Time is measured in tenths of a second, so that the tuning parameters   *)
(* 0.8 s, 3.5 s and 25 s are the integers 8, 35 and 250.  The wall clock   *)
(* is the variable clock; every time.time() read of one loop iteration     *)
(* sees the same value and the clock moves at time.sleep, by an amount     *)
(* the program does not control.  Probabilities are measured in tenths     *)
(* too: p_loss = 3 is a loss rate of 0.3 and a draw of random.random()     *)
(* is a value of RandomValues.                                             *)
(*                                                                         *)
(* A unit on a channel is modelled by its sequence number: 'is_ack' is     *)
(* fixed by the channel the unit is on and 'send_time' is never read.      *)
(***************************************************************************)
EXTENDS Integers, Sequences, FiniteSets, TLC

\* ---------------------------------------------------------------- bounds
MaxWindow == 3
MaxPackets == 3
ClockStep == 20
MaxTransmissions == 7
\* the configurations of the runs checked for termination
LiveWindow == 2
LivePackets == 2

\* ------------------------------------------------------ program constants
BASE_TIMEOUT == 8
STALL_LIMIT == 35
max_simulation_time == 250
GROWTH_NUM == 14
GROWTH_DEN == 10
RETRY_CAP == 5

\* draws of random.random(), a float of [0.0, 1.0), in tenths
RandomValues == {0, 5}
\* loss rates of the runs explored, in tenths
LossRates == {0, 3, 10}
\* loss rates (and window sizes) a caller can pass although they are invalid
BadLossRates == {-5, 15}
BadWindows == {0, -1}
\* what one time.sleep(0.005) can add to the clock: nothing visible at this
\* resolution, a slow iteration, or a suspension of the process that outlasts
\* the global deadline
Delays == {0, ClockStep, max_simulation_time}

VARIABLES
    N, p_loss, total_packets,
    base_seq, next_seq_num, packet_timers, ack_received,
    transmission_count, last_ack_time, packet_retries,
    expected_seq, receiver_window,
    data_channel, ack_channel,
    simulation_start, finished,
    clock, pc, result,
    sent, delivered, lost, last_sender, seen,
    stall_limit, last_ack_sent

config == <<N, p_loss, total_packets, stall_limit>>
sender == <<base_seq, next_seq_num, packet_timers, ack_received,
            transmission_count, last_ack_time, packet_retries>>
receiver == <<expected_seq, receiver_window>>
channels == <<data_channel, ack_channel>>
history == <<sent, delivered, lost, last_sender, seen, last_ack_sent>>
vars == <<config, sender, receiver, channels, simulation_start, finished,
          clock, pc, result, history>>

\* ---------------------------------------------------------------- helpers
Min(a, b) == IF a < b THEN a ELSE b

RECURSIVE Pow(_, _)
Pow(b, e) == IF e = 0 THEN 1 ELSE b * Pow(b, e - 1)

\* range(a, b) as an ascending sequence
Range(a, b) == [i \in 1..(IF b > a THEN b - a ELSE 0) |-> a + i - 1]

\* the keys of the dict packet_timers, in insertion order
TimerKeys(timers) == {timers[i].seq : i \in 1..Len(timers)}

TimerOf(timers, seq) ==
    (CHOOSE i \in 1..Len(timers) : timers[i].seq = seq)

\* packet_timers[seq] = t : an existing key keeps its place, a new one is last
TimerSet(timers, seq, t) ==
    IF seq \in TimerKeys(timers)
    THEN [timers EXCEPT ![TimerOf(timers, seq)] = [seq |-> seq, t |-> t]]
    ELSE Append(timers, [seq |-> seq, t |-> t])

\* del packet_timers[seq]
TimerDel(timers, seq) ==
    SelectSeq(timers, LAMBDA e : e.seq # seq)

\* the channel delivers a unit when random.random() > p_loss
Delivers(r) == r > p_loss

\* ------------------------------------------------------------ timer policy
\* variant: the exponent is capped one retry too late
calculate_timeout_late_cap(retries, seq) ==
    LET retry_count == IF seq \in DOMAIN retries THEN retries[seq] ELSE 0
        k == Min(retry_count, RETRY_CAP + 1)
    IN  [num |-> BASE_TIMEOUT * Pow(GROWTH_NUM, k), den |-> Pow(GROWTH_DEN, k)]

\* BASE_TIMEOUT * 1.4 ** min(retry_count, 5), as the fraction num / den
calculate_timeout(retries, seq) ==
    LET retry_count == IF seq \in DOMAIN retries THEN retries[seq] ELSE 0
        k == Min(retry_count, RETRY_CAP)
    IN  [num |-> BASE_TIMEOUT * Pow(GROWTH_NUM, k), den |-> Pow(GROWTH_DEN, k)]

\* current_time - sent_time > timeout_val
Expired(retries, seq, sent_time, now) ==
    LET tv == calculate_timeout(retries, seq)
    IN  (now - sent_time) * tv.den > tv.num

\* ------------------------------------------------------------------ sender
\* The part of the state transmit_packet works on.
SendState ==
    [count |-> transmission_count, retries |-> packet_retries,
     timers |-> packet_timers, chan |-> data_channel,
     sent |-> sent, lost |-> lost, log |-> <<>>, ok |-> FALSE]

transmit_packet(s, seq, r, now) ==
    LET r0 == IF seq \in DOMAIN s.retries THEN s.retries
              ELSE s.retries @@ (seq :> 0)
        r1 == [r0 EXCEPT ![seq] = @ + 1]
    IN  IF Delivers(r)
        THEN [count |-> s.count + 1, retries |-> r1,
              timers |-> TimerSet(s.timers, seq, now),
              chan |-> Append(s.chan, seq),
              sent |-> s.sent \cup {seq}, lost |-> s.lost,
              log |-> Append(s.log, seq), ok |-> TRUE]
        ELSE [count |-> s.count + 1, retries |-> r1,
              timers |-> s.timers, chan |-> s.chan,
              sent |-> s.sent \cup {seq}, lost |-> TRUE,
              log |-> Append(s.log, seq), ok |-> FALSE]

\* variant: the window test reads <= instead of <
RECURSIVE transmit_new_loop_inclusive(_, _, _, _)
transmit_new_loop_inclusive(s, nxt, rs, cnt) ==
    IF nxt <= base_seq + N /\ nxt < total_packets
    THEN IF nxt \notin ack_received
         THEN LET r == IF nxt \in DOMAIN rs THEN rs[nxt] ELSE 5
                  s2 == transmit_packet(s, nxt, r, clock)
              IN  transmit_new_loop_inclusive(s2, nxt + 1, rs,
                                              IF s2.ok THEN cnt + 1 ELSE cnt)
         ELSE transmit_new_loop_inclusive(s, nxt + 1, rs, cnt)
    ELSE [s |-> s, next_seq_num |-> nxt, sent_count |-> cnt]

\* the loop of _transmit_new_packets, from next_seq_num = nxt on
RECURSIVE transmit_new_loop(_, _, _, _)
transmit_new_loop(s, nxt, rs, cnt) ==
    IF nxt < base_seq + N /\ nxt < total_packets
    THEN IF nxt \notin ack_received
         THEN LET s2 == transmit_packet(s, nxt, rs[nxt], clock)
              IN  transmit_new_loop(s2, nxt + 1, rs,
                                    IF s2.ok THEN cnt + 1 ELSE cnt)
         ELSE transmit_new_loop(s, nxt + 1, rs, cnt)
    ELSE [s |-> s, next_seq_num |-> nxt, sent_count |-> cnt]

\* variant: an if instead of the while, the window slides by one at most
advance_base_once(b, acked) ==
    IF b \in acked THEN b + 1 ELSE b

\* variant: the window slides by one for every acknowledgment, then on
advance_base_counting(b, acked) ==
    LET RECURSIVE go(_)
        go(x) == IF x \in acked THEN go(x + 1) ELSE x
    IN  go(b + 1)

\* variant: an acknowledgment is cumulative, the window slides past the
\* highest acknowledged number
advance_base_cumulative(b, acked) ==
    IF acked = {} THEN b
    ELSE LET m == CHOOSE x \in acked : \A y \in acked : y <= x
         IN  IF m >= b THEN m + 1 ELSE b

\* while self.base_seq in self.ack_received: self.base_seq += 1
RECURSIVE advance_base(_, _)
advance_base(b, acked) ==
    IF b \in acked THEN advance_base(b + 1, acked) ELSE b

\* the sequence numbers of expired_packets, in the order of packet_timers
expired_packets(timers, retries, now) ==
    LET e == SelectSeq(timers, LAMBDA x : Expired(retries, x.seq, x.t, now))
    IN  [i \in 1..Len(e) |-> e[i].seq]

\* the second loop of _check_timeouts, over expired[i..]
RECURSIVE retransmit_expired(_, _, _, _)
retransmit_expired(s, expired, i, rs) ==
    IF i > Len(expired) THEN s
    ELSE LET seq == expired[i]
         IN  IF seq \notin ack_received /\ seq < total_packets
             THEN LET s2 == transmit_packet(s, seq, rs[seq], clock)
                      s3 == [s2 EXCEPT !.timers = TimerSet(@, seq, clock)]
                  IN  retransmit_expired(s3, expired, i + 1, rs)
             ELSE retransmit_expired(s, expired, i + 1, rs)

\* variant: recovery restarts from sequence number 0
recover_next_zero(b) == 0

\* variant: recovery leaves next_seq_num where it is
recover_next_keep(b) == next_seq_num

\* self.next_seq_num = self.base_seq
recover_next(b) == b

\* variant: recovery retransmits the whole window, acknowledged or not
RECURSIVE recover_loop_all(_, _, _, _)
recover_loop_all(s, seqs, i, rs) ==
    IF i > Len(seqs) THEN s
    ELSE LET seq == seqs[i]
             r == IF seq \in DOMAIN rs THEN rs[seq] ELSE 5
         IN  recover_loop_all(transmit_packet(s, seq, r, clock),
                              seqs, i + 1, rs)

\* variant: recovery leaves out the numbers whose timer is running
RECURSIVE recover_loop_untimed(_, _, _, _)
recover_loop_untimed(s, seqs, i, rs) ==
    IF i > Len(seqs) THEN s
    ELSE LET seq == seqs[i]
         IN  IF seq \notin ack_received /\ seq \notin TimerKeys(packet_timers)
             THEN recover_loop_untimed(transmit_packet(s, seq, rs[seq], clock),
                                       seqs, i + 1, rs)
             ELSE recover_loop_untimed(s, seqs, i + 1, rs)

\* the loop of _recover_from_stall, over seqs[i..]
RECURSIVE recover_loop(_, _, _, _)
recover_loop(s, seqs, i, rs) ==
    IF i > Len(seqs) THEN s
    ELSE LET seq == seqs[i]
         IN  IF seq \notin ack_received
             THEN recover_loop(transmit_packet(s, seq, rs[seq], clock),
                               seqs, i + 1, rs)
             ELSE recover_loop(s, seqs, i + 1, rs)

\* ---------------------------------------------------------------- receiver
\* the value of last_ack_sent when _handle_data_reception called
\* send_acknowledgment for nothing
NO_ACK == -1

\* send_acknowledgment(seq_num), the draw of random.random() being r
send_acknowledgment(seq, r) ==
    /\ last_ack_sent' = seq
    /\ IF Delivers(r)
       THEN /\ ack_channel' = Append(ack_channel, seq)
            /\ UNCHANGED lost
       ELSE /\ UNCHANGED ack_channel
            /\ lost' = TRUE

\* _handle_data_reception returns without a call of send_acknowledgment
no_acknowledgment ==
    /\ last_ack_sent' = NO_ACK
    /\ UNCHANGED <<ack_channel, lost>>

\* variant: the upper end of the receive window is not tested
in_window_no_upper(seq) == expected_seq <= seq

\* variant: the lower end of the receive window is not tested
in_window_no_lower(seq) ==
    seq <= Min(expected_seq + N - 1, total_packets - 1)

\* window_start <= seq <= min(window_end, self.total_packets - 1)
in_window(seq) ==
    /\ expected_seq <= seq
    /\ seq <= Min(expected_seq + N - 1, total_packets - 1)

\* variant: whatever is buffered is delivered, lowest first, gaps or not
RECURSIVE deliver_lowest(_, _, _)
deliver_lowest(exp, win, dlv) ==
    IF win # {}
    THEN LET m == CHOOSE x \in win : \A y \in win : x <= y
         IN  deliver_lowest(m + 1, win \ {m}, Append(dlv, m))
    ELSE [expected_seq |-> exp, receiver_window |-> win, delivered |-> dlv]

\* while self.expected_seq in self.receiver_window: del ...; expected_seq += 1
RECURSIVE deliver_in_order(_, _, _)
deliver_in_order(exp, win, dlv) ==
    IF exp \in win
    THEN deliver_in_order(exp + 1, win \ {exp}, Append(dlv, exp))
    ELSE [expected_seq |-> exp, receiver_window |-> win, delivered |-> dlv]

\* what an acknowledgment does at the sender (history only)
ack_case(seq, b) ==
    {IF seq \in ack_received THEN "reack" ELSE "ack"}
      \cup (IF b > base_seq + 1 THEN {"slide2"} ELSE {})

\* which branch of _handle_data_reception a data unit takes (history only)
data_case(seq) ==
    IF in_window(seq)
    THEN IF seq \in receiver_window THEN "rebuffer"
         ELSE IF seq = expected_seq THEN "new" ELSE "gap"
    ELSE IF seq < expected_seq THEN "old" ELSE "above"

\* ------------------------------------------------------------------- Init
ValidConfig ==
    /\ N \in 1..MaxWindow
    /\ total_packets \in 1..MaxPackets
    /\ p_loss \in LossRates

InitState ==
    /\ base_seq = 0
    /\ next_seq_num = 0
    /\ packet_timers = <<>>
    /\ ack_received = {}
    /\ transmission_count = 0
    /\ last_ack_time = 0
    /\ packet_retries = [x \in {} |-> 0]
    /\ expected_seq = 0
    /\ receiver_window = {}
    /\ data_channel = <<>>
    /\ ack_channel = <<>>
    /\ simulation_start = 0
    /\ finished = FALSE
    /\ clock = 0
    /\ pc = "new"
    /\ result = -1
    /\ sent = {}
    /\ delivered = <<>>
    /\ lost = FALSE
    /\ last_sender = <<"none", <<>>>>
    /\ seen = {}
    /\ stall_limit = STALL_LIMIT
    /\ last_ack_sent = NO_ACK

Init ==
    /\ ValidConfig
    /\ InitState

\* ---------------------------------------------------------------- actions
\* execute_protocol up to the loop
Start ==
    /\ pc = "new"
    /\ simulation_start' = clock
    /\ last_ack_time' = clock
    /\ pc' = "loop"
    /\ UNCHANGED <<config, base_seq, next_seq_num, packet_timers,
                   ack_received, transmission_count, packet_retries,
                   receiver, channels, finished, clock, result, history>>

\* variant: the run counts as finished once everything was sent
is_finished_sent == next_seq_num >= total_packets

\* self.finished = (self.base_seq >= self.total_packets)
is_finished == base_seq >= total_packets

\* variant: the deadline test reads the stall limit
LoopCondition_stall_limit ==
    /\ base_seq < total_packets
    /\ clock - simulation_start < STALL_LIMIT

\* while self.base_seq < self.total_packets and
\*       time.time() - self.simulation_start < max_simulation_time
LoopCondition ==
    /\ base_seq < total_packets
    /\ clock - simulation_start < max_simulation_time

\* variant: the operands of the stall test are swapped
Stalled_swapped == last_ack_time - clock > stall_limit

\* if current_time - self.last_ack_time > self.STALL_LIMIT
Stalled == clock - last_ack_time > stall_limit

\* loop test and stall check, no stall detected
NoStall ==
    /\ pc = "loop"
    /\ LoopCondition
    /\ ~Stalled
    /\ pc' = "send"
    /\ UNCHANGED <<config, sender, receiver, channels, simulation_start,
                   finished, clock, result, history>>

\* loop test and stall check, stall detected: _recover_from_stall
RecoverFromStall ==
    /\ pc = "loop"
    /\ LoopCondition
    /\ Stalled
    /\ LET seqs == Range(base_seq, Min(base_seq + N, total_packets))
       IN  \E rs \in [{seqs[i] : i \in 1..Len(seqs)} \ ack_received
                        -> RandomValues] :
             LET s == recover_loop(SendState, seqs, 1, rs)
             IN  /\ s.count <= MaxTransmissions
                 /\ next_seq_num' = recover_next(base_seq)
                 /\ transmission_count' = s.count
                 /\ packet_retries' = s.retries
                 /\ packet_timers' = s.timers
                 /\ data_channel' = s.chan
                 /\ sent' = s.sent
                 /\ lost' = s.lost
                 /\ last_sender' = <<"recover", s.log>>
    /\ last_ack_time' = clock
    /\ pc' = "send"
    /\ UNCHANGED <<config, base_seq, ack_received, receiver, ack_channel,
                   simulation_start, finished, clock, result, delivered,
                   seen, last_ack_sent>>

\* _transmit_new_packets and the update of last_ack_time
TransmitNewPackets ==
    /\ pc = "send"
    /\ \E rs \in [(next_seq_num..(Min(base_seq + N, total_packets) - 1))
                     \ ack_received -> RandomValues] :
         LET res == transmit_new_loop(SendState, next_seq_num, rs, 0)
             s == res.s
         IN  /\ s.count <= MaxTransmissions
             /\ next_seq_num' = res.next_seq_num
             /\ transmission_count' = s.count
             /\ packet_retries' = s.retries
             /\ packet_timers' = s.timers
             /\ data_channel' = s.chan
             /\ sent' = s.sent
             /\ lost' = s.lost
             /\ last_sender' = <<IF last_sender[1] = "recover"
                                  THEN "resend" ELSE "send", s.log>>
             /\ last_ack_time' = IF res.sent_count > 0 THEN clock
                                 ELSE last_ack_time
    /\ pc' = "recv"
    /\ UNCHANGED <<config, base_seq, ack_received, receiver, ack_channel,
                   simulation_start, finished, clock, result, delivered,
                   seen, last_ack_sent>>

\* _handle_data_reception: at most one unit of the data channel
HandleDataReception ==
    /\ pc = "recv"
    /\ IF data_channel = <<>>
       THEN /\ UNCHANGED <<receiver, data_channel, delivered, seen>>
            /\ no_acknowledgment
       ELSE LET seq == Head(data_channel)
            IN  /\ data_channel' = Tail(data_channel)
                /\ seen' = seen \cup {data_case(seq)}
                /\ IF in_window(seq)
                   THEN LET fresh == seq \notin receiver_window
                            d == deliver_in_order(expected_seq,
                                                  receiver_window \cup {seq},
                                                  delivered)
                        IN  /\ expected_seq' = d.expected_seq
                            /\ receiver_window' = d.receiver_window
                            /\ delivered' = d.delivered
                            /\ IF fresh
                               THEN \E r \in RandomValues :
                                      send_acknowledgment(seq, r)
                               ELSE no_acknowledgment
                   ELSE /\ UNCHANGED <<receiver, delivered>>
                        /\ IF seq < expected_seq
                           THEN \E r \in RandomValues :
                                  send_acknowledgment(seq, r)
                           ELSE no_acknowledgment
    /\ pc' = "ack"
    /\ UNCHANGED <<config, sender, simulation_start, finished, clock,
                   result, sent, last_sender>>

\* _process_acknowledgments: at most one unit of the acknowledgment channel
ProcessAcknowledgments ==
    /\ pc = "ack"
    /\ IF ack_channel = <<>>
       THEN UNCHANGED <<base_seq, packet_timers, ack_received,
                        last_ack_time, packet_retries, ack_channel, seen>>
       ELSE LET seq == Head(ack_channel)
                acked == ack_received \cup {seq}
                b == advance_base(base_seq, acked)
            IN  /\ ack_channel' = Tail(ack_channel)
                /\ seen' = seen \cup ack_case(seq, b)
                /\ ack_received' = acked
                /\ packet_timers' = TimerDel(packet_timers, seq)
                /\ packet_retries' = [x \in DOMAIN packet_retries \ {seq}
                                        |-> packet_retries[x]]
                /\ base_seq' = b
                /\ last_ack_time' = IF b # base_seq THEN clock
                                    ELSE last_ack_time
    /\ pc' = "timeout"
    /\ UNCHANGED <<config, next_seq_num, transmission_count, receiver,
                   data_channel, simulation_start, finished, clock, result,
                   sent, delivered, lost, last_sender, last_ack_sent>>

\* _check_timeouts
CheckTimeouts ==
    /\ pc = "timeout"
    /\ LET expired == expired_packets(packet_timers, packet_retries, clock)
       IN  \E rs \in [{expired[i] : i \in 1..Len(expired)} -> RandomValues] :
             LET s == retransmit_expired(SendState, expired, 1, rs)
             IN  /\ s.count <= MaxTransmissions
                 /\ transmission_count' = s.count
                 /\ packet_retries' = s.retries
                 /\ packet_timers' = s.timers
                 /\ data_channel' = s.chan
                 /\ sent' = s.sent
                 /\ lost' = s.lost
                 /\ last_sender' = <<"timeout", s.log>>
    /\ pc' = "sleep"
    /\ UNCHANGED <<config, base_seq, next_seq_num, ack_received,
                   last_ack_time, receiver, ack_channel, simulation_start,
                   finished, clock, result, delivered, seen,
                   last_ack_sent>>

\* time.sleep(0.005)
Sleep ==
    /\ pc = "sleep"
    /\ \E d \in Delays : clock' = clock + d
    /\ pc' = "loop"
    /\ UNCHANGED <<config, sender, receiver, channels, simulation_start,
                   finished, result, history>>

\* the loop ends: self.finished is set and base_seq returned
Finish ==
    /\ pc = "loop"
    /\ ~LoopCondition
    /\ finished' = is_finished
    /\ result' = base_seq
    /\ pc' = "done"
    /\ UNCHANGED <<config, sender, receiver, channels, simulation_start,
                   clock, history>>

Next ==
    \/ Start
    \/ NoStall
    \/ RecoverFromStall
    \/ TransmitNewPackets
    \/ HandleDataReception
    \/ ProcessAcknowledgments
    \/ CheckTimeouts
    \/ Sleep
    \/ Finish

Spec == Init /\ [][Next]_vars

\* Every iteration sleeps, and a sleep takes real time: the clock cannot
\* stand still for ever.
ClockAdvance == Sleep /\ clock' > clock

\* the runs with loss probability 0
InitLossFree ==
    /\ N \in 1..LiveWindow
    /\ total_packets \in 1..LivePackets
    /\ p_loss = 0
    /\ InitState

FairSpec ==
    InitLossFree /\ [][Next]_vars /\ WF_vars(Next) /\ SF_vars(ClockAdvance)

\* __init__ stores whatever it is given: the runs of every configuration a
\* caller can construct
InitAnyConfig ==
    /\ N \in (1..MaxWindow) \cup BadWindows
    /\ total_packets \in 1..MaxPackets
    /\ p_loss \in LossRates \cup BadLossRates
    /\ InitState

SpecAnyConfig == InitAnyConfig /\ [][Next]_vars

\* The runs without the global deadline.  The program reads its timestamps
\* only in differences with the current time, so a sleep of d can move every
\* stored timestamp back by d instead of moving the clock forward: the
\* deadline test then never fails and nothing else changes.  An age above
\* AgeCap is above the stall limit and above every timeout, so it is kept
\* at AgeCap.
AgeCap == 2 * STALL_LIMIT

Aged(t, d) == IF clock - (t - d) > AgeCap THEN clock - AgeCap ELSE t - d

SleepShiftBy(d) ==
    /\ pc = "sleep"
    /\ last_ack_time' = Aged(last_ack_time, d)
    /\ packet_timers' = [i \in 1..Len(packet_timers) |->
                           [packet_timers[i] EXCEPT !.t = Aged(@, d)]]
    /\ pc' = "loop"
    /\ UNCHANGED <<config, base_seq, next_seq_num, ack_received,
                   transmission_count, packet_retries, receiver, channels,
                   simulation_start, finished, clock, result, history>>

\* time.sleep(0.005), the time it takes moved into the timestamps
SleepShift == \E d \in Delays : SleepShiftBy(d)

\* an iteration that takes real time
TimePasses == \E d \in Delays \ {0} : SleepShiftBy(d)

NextNoDeadline ==
    \/ Start
    \/ NoStall
    \/ RecoverFromStall
    \/ TransmitNewPackets
    \/ HandleDataReception
    \/ ProcessAcknowledgments
    \/ CheckTimeouts
    \/ SleepShift
    \/ Finish

\* every iteration sleeps and a sleep takes real time
SpecNoDeadline ==
    /\ InitLossFree
    /\ [][NextNoDeadline]_vars
    /\ WF_vars(NextNoDeadline)
    /\ SF_vars(TimePasses)

\* _handle_data_reception takes whatever unit is on data_channel, a queue
\* any holder of the object can write: a unit with a sequence number of the
\* run that is outside the receive window arrives while the channel is empty
AnyArrival ==
    /\ pc = "recv"
    /\ data_channel = <<>>
    /\ \E seq \in 0..(total_packets - 1) :
         /\ \/ seq < expected_seq
            \/ seq > Min(expected_seq + N - 1, total_packets - 1)
         /\ data_channel' = <<seq>>
    /\ UNCHANGED <<config, sender, receiver, ack_channel, simulation_start,
                   finished, clock, pc, result, history>>

NextAnyArrival == Next \/ AnyArrival

SpecAnyArrival == InitLossFree /\ [][NextAnyArrival]_vars

TypeOK ==
    /\ base_seq \in 0..total_packets
    /\ next_seq_num \in 0..total_packets
    /\ expected_seq \in 0..total_packets
    /\ ack_received \subseteq 0..(total_packets - 1)
    /\ receiver_window \subseteq 0..(total_packets - 1)
    /\ DOMAIN packet_retries \subseteq 0..(total_packets - 1)
    /\ TimerKeys(packet_timers) \subseteq 0..(total_packets - 1)
    /\ Len(packet_timers) = Cardinality(TimerKeys(packet_timers))
    /\ stall_limit \in Nat
    /\ last_ack_sent \in {NO_ACK} \cup (0..(total_packets - 1))

\* ===================================================================
\* Properties
\* ===================================================================
Outstanding == sent \ ack_received

\* C1: in every state, also between _recover_from_stall and the following
\* _transmit_new_packets, base_seq <= next_seq_num <= base_seq + N and at
\* most N transmitted sequence numbers are unacknowledged.
C1_WindowBound ==
    /\ base_seq <= next_seq_num
    /\ next_seq_num <= base_seq + N
    /\ Cardinality(Outstanding) <= N

\* a recovery has just run with a full window of one unacknowledged packet
C1_Witness ==
    /\ pc = "send"
    /\ last_sender[1] = "recover"
    /\ N = 1
    /\ base_seq > 0
    /\ Cardinality(Outstanding) = N

\* C2: the delivered sequence numbers are exactly 0, 1, ..., expected_seq-1
\* in this order, each once, and each was transmitted by the sender.
C2_InOrderDelivery ==
    /\ Len(delivered) = expected_seq
    /\ \A i \in 1..Len(delivered) : delivered[i] = i - 1
    /\ \A i \in 1..Len(delivered) : delivered[i] \in sent

\* everything was delivered although units arrived out of order and twice
C2_Witness ==
    /\ Len(delivered) = 3
    /\ "gap" \in seen
    /\ "old" \in seen
    /\ pc = "ack"
    /\ receiver_window = {}

\* C3: every buffered sequence number lies in
\* [expected_seq, expected_seq + N - 1] and expected_seq is not buffered.
C3_BufferInWindow ==
    /\ \A q \in receiver_window :
         expected_seq <= q /\ q <= expected_seq + N - 1
    /\ expected_seq \notin receiver_window

\* a unit is buffered behind a gap, at the upper end of the window
C3_Witness ==
    /\ pc = "ack"
    /\ expected_seq = 1
    /\ receiver_window = {expected_seq + N - 1}
    /\ "gap" \in seen
    /\ "old" \in seen

\* C4: ack_received only grows, and base_seq is the end of the maximal
\* acknowledged prefix: everything below it is acknowledged, it is not.
C4_AckedPrefixState ==
    /\ \A q \in 0..(base_seq - 1) : q \in ack_received
    /\ base_seq \notin ack_received

C4_AckedPrefix ==
    /\ []C4_AckedPrefixState
    /\ [][ack_received \subseteq ack_received']_vars

\* the window slid over two numbers at once, the higher acknowledged first
C4_Witness ==
    /\ pc = "timeout"
    /\ "slide2" \in seen
    /\ base_seq = 2
    /\ last_ack_time = clock

\* C5: base_seq and expected_seq never decrease; next_seq_num decreases only
\* in _recover_from_stall, which sets it to base_seq.
C5_Monotonic ==
    [][/\ base_seq' >= base_seq
       /\ expected_seq' >= expected_seq
       /\ \/ next_seq_num' >= next_seq_num
          \/ /\ pc = "loop" /\ pc' = "send" /\ Stalled
             /\ next_seq_num' = base_seq
             /\ next_seq_num' >= base_seq']_vars

\* a recovery has taken next_seq_num back to a base_seq above 0
C5_Witness ==
    /\ pc = "send"
    /\ last_sender[1] = "recover"
    /\ next_seq_num = base_seq
    /\ base_seq > 0
    /\ N = 2
    /\ base_seq + 1 \in sent

\* C8: an acknowledgment for an acknowledged number changes nothing at the
\* sender, and a data unit for a buffered number changes nothing at the
\* receiver and delivers nothing.
C8_Idempotent ==
    [][/\ (pc = "ack" /\ ack_channel # <<>>
             /\ Head(ack_channel) \in ack_received)
          => UNCHANGED <<base_seq, next_seq_num, ack_received,
                         packet_timers, packet_retries>>
       /\ (pc = "recv" /\ data_channel # <<>>
             /\ Head(data_channel) \in receiver_window)
          => UNCHANGED <<expected_seq, receiver_window, delivered>>]_vars

\* both a repeated acknowledgment and a repeated buffered unit were processed
C8_Witness ==
    /\ "reack" \in seen
    /\ "rebuffer" \in seen

\* C9: when execute_protocol stops it returns base_seq, base_seq is at most
\* total_packets and the flag is true exactly when they are equal; a stop at
\* the deadline with base_seq < total_packets has the flag false.
DeadlinePassed == clock - simulation_start >= max_simulation_time

C9_Outcome ==
    /\ base_seq <= total_packets
    /\ pc = "done" =>
         /\ result = base_seq
         /\ finished <=> (base_seq = total_packets)
         /\ (DeadlinePassed /\ base_seq < total_packets) =>
              (~finished /\ result < total_packets)

\* the deadline stopped a run that had delivered something, not everything
C9_Witness ==
    /\ pc = "done"
    /\ DeadlinePassed
    /\ 0 < base_seq
    /\ base_seq < total_packets
    /\ next_seq_num = total_packets

\* the exploration stops a run whose next step would exceed MaxTransmissions
Truncated == pc # "done" /\ ~ENABLED Next

\* C6 as stated: a run with loss probability 0 (here one in which, moreover,
\* no unit was dropped) ends with the completion flag true.
C6_AlwaysCompletes ==
    (pc = "done" /\ p_loss = 0 /\ ~lost) =>
        (finished /\ base_seq = total_packets)

\* C6 amended: a run with loss probability 0 eventually stops, and it stops
\* with base_seq = total_packets and the flag true unless the global deadline
\* has elapsed, in which case the flag is false.
C6_CompletesUnlessDeadline ==
    /\ <>(pc = "done" \/ Truncated)
    /\ []((pc = "done" /\ p_loss = 0) =>
            \/ finished /\ base_seq = total_packets
            \/ ~finished /\ base_seq < total_packets /\ DeadlinePassed)

\* a run without any loss has completed before the deadline
C6_Witness ==
    /\ pc = "done"
    /\ p_loss = 0
    /\ ~lost
    /\ finished
    /\ ~DeadlinePassed
    /\ total_packets = 2
    /\ N = 2
    /\ transmission_count = 2

\* C7: in a run with loss probability 0 in which nothing is lost, no
\* sequence number is transmitted twice.
C7_NoRetransmission ==
    (p_loss = 0 /\ ~lost) => transmission_count = Cardinality(sent)

\* the constructor arguments the specification calls valid
ConfigOK ==
    /\ N >= 1
    /\ 0 <= p_loss
    /\ p_loss <= 10

\* C10: under a configuration with a non-positive window size or a loss
\* probability outside [0, 1] no step of the protocol is taken.
C10_BadConfigRejected ==
    ~ConfigOK =>
        /\ pc = "new"
        /\ transmission_count = 0
        /\ sent = {}

\* a timeout as a multiple of 10^-(RETRY_CAP + 1) tenths of a second
Scaled(tv) == tv.num * (Pow(GROWTH_DEN, RETRY_CAP + 1) \div tv.den)

\* BASE_TIMEOUT * growth_factor ^ cap
MaxTimeout ==
    [num |-> BASE_TIMEOUT * Pow(GROWTH_NUM, RETRY_CAP),
     den |-> Pow(GROWTH_DEN, RETRY_CAP)]

\* C11: while a sequence number stays unacknowledged, the timeout computed
\* for it never decreases from one transmission to the next, no longer
\* changes once the retry count has reached the cap, and is never above
\* BASE_TIMEOUT * 1.4 ^ 5.
C11_TimeoutGrowth ==
    /\ [](\A q \in DOMAIN packet_retries :
            Scaled(calculate_timeout(packet_retries, q)) <= Scaled(MaxTimeout))
    /\ [][\A q \in DOMAIN packet_retries \cap DOMAIN packet_retries' :
            /\ packet_retries'[q] >= packet_retries[q]
            /\ Scaled(calculate_timeout(packet_retries', q))
                 >= Scaled(calculate_timeout(packet_retries, q))
            /\ packet_retries[q] >= RETRY_CAP =>
                 Scaled(calculate_timeout(packet_retries', q))
                   = Scaled(calculate_timeout(packet_retries, q))]_vars

\* a sequence number was transmitted again after its retry count had
\* reached the cap
C11_Witness ==
    /\ 0 \in DOMAIN packet_retries
    /\ packet_retries[0] = RETRY_CAP + 1
    /\ 0 \in TimerKeys(packet_timers)
    /\ pc = "sleep"

\* C12: after _transmit_new_packets every unacknowledged sequence number of
\* [base_seq, next_seq_num) has an entry in packet_timers, whether or not the
\* channel dropped its transmission.
C12_TimerAfterSend ==
    (pc = "recv" /\ last_sender[1] \in {"send", "resend"}) =>
        \A q \in (base_seq..(next_seq_num - 1)) \ ack_received :
            q \in TimerKeys(packet_timers)

\* C13: when the data unit taken from the channel carries a sequence number
\* that is buffered and not yet delivered, the receiver calls
\* send_acknowledgment for it again and its buffer stays as it was.
C13_BufferedReAcked ==
    [][(/\ pc = "recv"
        /\ data_channel # <<>>
        /\ Head(data_channel) \in receiver_window)
       => /\ last_ack_sent' = Head(data_channel)
          /\ UNCHANGED receiver]_vars

\* the step is a call of _transmit_new_packets, _check_timeouts or
\* _recover_from_stall
SenderStep ==
    \/ pc = "send"
    \/ pc = "timeout"
    \/ pc = "loop" /\ LoopCondition /\ Stalled

\* the sequence numbers the sender transmitted in its latest call
Logged(log) == {log[i] : i \in 1..Len(log)}

\* C14: an acknowledged sequence number has no timer and no retry count, it
\* stays acknowledged, and no call of _transmit_new_packets, _check_timeouts
\* or _recover_from_stall transmits it.
C14_AckedIsFinal ==
    /\ [](\A q \in ack_received :
            /\ q \notin TimerKeys(packet_timers)
            /\ q \notin DOMAIN packet_retries)
    /\ [][/\ ack_received \subseteq ack_received'
          /\ SenderStep => Logged(last_sender'[2]) \cap ack_received = {}
         ]_vars

\* a recovery has just retransmitted the base of a window in which a later
\* sequence number is acknowledged
C14_Witness ==
    /\ pc = "send"
    /\ last_sender = <<"recover", <<base_seq>>>>
    /\ base_seq + 1 \in ack_received
    /\ base_seq + 1 < Min(base_seq + N, total_packets)

\* C15: a data unit below expected_seq is acknowledged and one above
\* min(expected_seq + N - 1, total_packets - 1) is not; neither changes
\* expected_seq or receiver_window.
C15_OutsideWindow ==
    [][(pc = "recv" /\ data_channel # <<>>) =>
         LET seq == Head(data_channel)
         IN  /\ seq < expected_seq =>
                  /\ last_ack_sent' = seq
                  /\ UNCHANGED receiver
             /\ seq > Min(expected_seq + N - 1, total_packets - 1) =>
                  /\ last_ack_sent' = NO_ACK
                  /\ UNCHANGED <<receiver, ack_channel>>
      ]_vars

\* units below and above the receive window have arrived, the latest of
\* them below it
C15_Witness ==
    /\ pc = "ack"
    /\ "old" \in seen
    /\ "above" \in seen
    /\ last_ack_sent # NO_ACK
    /\ last_ack_sent < expected_seq - 1

\* C16: the receiver is never behind the sender's base nor more than a
\* window ahead of it, every acknowledged sequence number was delivered or
\* is buffered, and no data unit on the channel is above
\* expected_seq + N - 1.
C16_ReceiverWithinWindow ==
    /\ base_seq <= expected_seq
    /\ expected_seq <= base_seq + N
    /\ ack_received \subseteq Logged(delivered) \cup receiver_window
    /\ \A i \in 1..Len(data_channel) :
         data_channel[i] <= expected_seq + N - 1

\* an acknowledged sequence number waits in the buffer while the
\* retransmission of the missing one below it is on the channel
C16_Witness ==
    /\ ack_received \cap receiver_window # {}
    /\ base_seq = expected_seq
    /\ data_channel # <<>>
    /\ Head(data_channel) = expected_seq
    /\ expected_seq + N - 1 \in receiver_window

\* the unacknowledged sequence numbers of the sender's window, ascending
UnackedInWindow ==
    SelectSeq(Range(base_seq, Min(base_seq + N, total_packets)),
              LAMBDA q : q \notin ack_received)

\* the step is a call of _recover_from_stall
RecoveryStep == pc = "loop" /\ LoopCondition /\ Stalled

\* C17: _recover_from_stall sets next_seq_num to base_seq and transmits,
\* once each and with or without a timer, exactly the unacknowledged
\* sequence numbers of [base_seq, min(base_seq + N, total_packets)); it
\* leaves base_seq, ack_received and the receiver as they were.
C17_RecoveryEffect ==
    [][RecoveryStep =>
         /\ next_seq_num' = base_seq
         /\ last_sender' = <<"recover", UnackedInWindow>>
         /\ transmission_count' = transmission_count + Len(UnackedInWindow)
         /\ UNCHANGED <<base_seq, ack_received, receiver>>
      ]_vars

\* a recovery has just retransmitted two sequence numbers, the first of
\* which had no timer while the second had one, set at an earlier tick
C17_Witness ==
    /\ pc = "send"
    /\ last_sender = <<"recover", <<base_seq, base_seq + 1>>>>
    /\ base_seq \notin TimerKeys(packet_timers)
    /\ base_seq + 1 \in TimerKeys(packet_timers)
    /\ packet_timers[TimerOf(packet_timers, base_seq + 1)].t < clock

\* C18: a stall recovery raises the stall threshold: the recovery that the
\* initial threshold triggers leaves a larger threshold for the next stall
\* detection.
C18_ThresholdGrows ==
    [][(RecoveryStep /\ stall_limit = STALL_LIMIT)
         => stall_limit' > stall_limit]_vars

\* C20: in an iteration with a stall recovery, _recover_from_stall transmits
\* every unacknowledged sequence number of the window once and the
\* _transmit_new_packets that follows transmits the same numbers once more,
\* before the receiver or an acknowledgment is looked at: the transmission
\* counter grows by that number of packets in each of the two steps.
C20_RecoveryTransmitsTwice ==
    [][/\ RecoveryStep =>
            /\ pc' = "send"
            /\ last_sender' = <<"recover", UnackedInWindow>>
            /\ transmission_count' =
                 transmission_count + Len(UnackedInWindow)
            /\ UNCHANGED <<base_seq, ack_received, receiver, ack_channel>>
       /\ (pc = "send" /\ last_sender[1] = "recover") =>
            /\ pc' = "recv"
            /\ last_sender' = <<"resend", last_sender[2]>>
            /\ last_sender[2] = UnackedInWindow
            /\ transmission_count' =
                 transmission_count + Len(last_sender[2])
            /\ UNCHANGED <<base_seq, ack_received, receiver, ack_channel>>
      ]_vars

\* two packets were sent, a recovery sent both again and
\* _transmit_new_packets both once more
C20_Witness ==
    /\ pc = "recv"
    /\ last_sender = <<"resend", <<0, 1>>>>
    /\ transmission_count = 6

\* the run was cut by the bound on the number of transmissions
OutOfBudget == pc # "done" /\ ~ENABLED NextNoDeadline

\* C19: without the global deadline the sender never stops retransmitting
\* an unacknowledged sequence number of its window, whether its first
\* transmission was dropped or its acknowledgment was lost: every run
\* reaches base_seq = total_packets.
C19_EventuallyComplete == <>(base_seq = total_packets \/ OutOfBudget)

\* a run has completed in which the first packet was missing when the
\* second was buffered, the second arrived again while buffered and once
\* more after its delivery
C19_Witness ==
    /\ pc = "done"
    /\ finished
    /\ total_packets = 2
    /\ lost
    /\ {"gap", "rebuffer", "old"} \subseteq seen

====
